---------------------------- MODULE Spec2Model ----------------------------
(***************************************************************************)
(* Model of the ANiStrm plugin (src/plugins/anistrm/__init__.py): the      *)
(* retry decorator, the two catalog retrieval calls, the .strm             *)
(* materializer, the __task job and the scheduler binding of init_plugin / *)
(* stop_service; and of the alert logic of the DiskMonitor plugin          *)
(* (src/plugins.v2/disk_space_monitor/__init__.py).                        *)
(*                                                                         *)
(* Strings are sequences of lexemes: a lexeme is a piece of text the code  *)
(* never looks inside (a host name, a marker such as ".mp4" or "?d=true",  *)
(* one character of a display name).  Python's None / "" / [] are all      *)
(* falsy in the places the code tests them and are written <<>> here.      *)
(***************************************************************************)
EXTENDS Integers, Sequences, FiniteSets, TLC

VARIABLES
    store,          \* the host's persisted plugin configuration (update_config target)
    _enabled,       \* ANiStrm._enabled
    _cron,          \* ANiStrm._cron
    _onlyonce,      \* ANiStrm._onlyonce
    _fulladd,       \* ANiStrm._fulladd
    _storageplace,  \* ANiStrm._storageplace
    _date,          \* ANiStrm._date
    _scheduler,     \* ANiStrm._scheduler (the BackgroundScheduler or None)
    host,           \* position of the host thread inside init_plugin / stop_service
    run,            \* one record per scheduler job: the __task execution of that job
    files,          \* the .strm files under the storage root, by display name
    rootExists,     \* whether the storage root directory exists
    now,            \* the wall clock read by datetime.now(): [year, month]
    hist,           \* observation log: clock ticks so far, whether a job fired since the last init_plugin
    rt,             \* the retry wrapper exercised on its own (SpecRetry)
    fn,             \* a pure function applied on its own: its arguments and results
    dm              \* the DiskMonitor plugin: its attributes, its clock, the messages it posted

vars == <<store, _enabled, _cron, _onlyonce, _fulladd, _storageplace, _date,
          _scheduler, host, run, files, rootExists, now, hist, rt, fn, dm>>

\* everything but rt
pluginVars == <<store, _enabled, _cron, _onlyonce, _fulladd, _storageplace, _date,
                _scheduler, host, run, files, rootExists, now, hist, fn, dm>>

\* what the plugin's own steps never touch
aux == <<rt, fn, dm>>

\* everything but fn
nonFn == <<store, _enabled, _cron, _onlyonce, _fulladd, _storageplace, _date,
           _scheduler, host, run, files, rootExists, now, hist, rt, dm>>

\* everything but dm
nonDm == <<store, _enabled, _cron, _onlyonce, _fulladd, _storageplace, _date,
           _scheduler, host, run, files, rootExists, now, hist, rt, fn>>

-----------------------------------------------------------------------------
(* Bounds of the exploration *)

MaxTicks == 1       \* month changes of the wall clock explored
MaxTries == 3       \* largest `tries` given to the retry decorator in SpecRetry
MaxLen == 3         \* longest URL (in lexemes) given to _normalize_openani_url in SpecNorm
MaxMinutes == 1     \* minutes of time.time() explored by the DiskMonitor checks

-----------------------------------------------------------------------------
(* Text helpers *)

RECURSIVE ReplaceAll(_, _, _)
\* str.replace(old, new) for a one-lexeme `old`
ReplaceAll(s, old, new) ==
    IF s = <<>> THEN <<>>
    ELSE (IF Head(s) = old THEN new ELSE <<Head(s)>>) \o ReplaceAll(Tail(s), old, new)

\* str.endswith(suffix)
EndsWith(s, suffix) ==
    /\ Len(s) >= Len(suffix)
    /\ SubSeq(s, Len(s) - Len(suffix) + 1, Len(s)) = suffix

\* `lexeme in s`
Contains(s, lexeme) == \E i \in 1..Len(s) : s[i] = lexeme

RECURSIVE strip(_)
\* str.strip(): drop leading and trailing blanks
strip(s) ==
    IF s = <<>> THEN <<>>
    ELSE IF Head(s) = " " THEN strip(Tail(s))
    ELSE IF s[Len(s)] = " " THEN strip(SubSeq(s, 1, Len(s) - 1))
    ELSE s

RECURSIVE quote(_)
\* urllib.parse.quote(file_name, safe=''): blanks become %20, letters stay
quote(s) ==
    IF s = <<>> THEN <<>>
    ELSE (IF Head(s) = " " THEN <<"%20">> ELSE <<Head(s)>>) \o quote(Tail(s))

\* ANiStrm._normalize_openani_url
_normalize_openani_url(url) ==
    IF url = <<>> THEN <<>>
    ELSE IF EndsWith(url, <<".mp4", "?d=true">>) THEN url
    ELSE IF Contains(url, "?d=mp4") THEN ReplaceAll(url, "?d=mp4", <<".mp4", "?d=true">>)
    ELSE IF EndsWith(url, <<".mp4">>) THEN url \o <<"?d=true">>
    ELSE url \o <<".mp4", "?d=true">>

-----------------------------------------------------------------------------
(* retry(ExceptionToCheck, tries, delay, backoff, logger, ret) *)

\* the closure of deco_retry on entry to f_retry: mtries, mdelay = tries, delay
RetryInit(tries, delay, backoff, ret) ==
    [tries |-> tries, delay |-> delay, backoff |-> backoff, ret |-> ret,
     mtries |-> tries, mdelay |-> delay,
     calls |-> 0,            \* invocations of f so far
     slept |-> <<>>,         \* the time.sleep arguments so far
     outcomes |-> <<>>,      \* what each invocation of f did
     status |-> IF tries > 0 THEN "running" ELSE "returned",
     result |-> ret]

\* a mutation of f_retry: a failed attempt is not counted against the budget
f_retry_nodecrement(r, out) ==
    IF ~out.raised
    THEN [r EXCEPT !.calls = @ + 1, !.outcomes = Append(@, "ok"),
                   !.status = "returned", !.result = out.value]
    ELSE IF ~out.matches
    THEN [r EXCEPT !.calls = @ + 1, !.outcomes = Append(@, "other"),
                   !.status = "propagated"]
    ELSE [r EXCEPT !.calls = @ + 1, !.outcomes = Append(@, "raise"),
                   !.slept = Append(@, r.mdelay),
                   !.mdelay = @ * r.backoff]

\* a mutation of f_retry: the exhausted wrapper re-raises instead of returning ret
f_retry_reraise(r, out) ==
    IF ~out.raised
    THEN [r EXCEPT !.calls = @ + 1, !.outcomes = Append(@, "ok"),
                   !.status = "returned", !.result = out.value]
    ELSE [r EXCEPT !.calls = @ + 1, !.outcomes = Append(@, "raise"),
                   !.slept = Append(@, r.mdelay),
                   !.mtries = @ - 1,
                   !.status = IF r.mtries - 1 > 0 THEN "running" ELSE "propagated"]

\* a mutation of f_retry: the delay doubles however backoff is set
f_retry_doubling(r, out) ==
    IF ~out.raised
    THEN [r EXCEPT !.calls = @ + 1, !.outcomes = Append(@, "ok"),
                   !.status = "returned", !.result = out.value]
    ELSE [r EXCEPT !.calls = @ + 1, !.outcomes = Append(@, "raise"),
                   !.slept = Append(@, r.mdelay),
                   !.mtries = @ - 1,
                   !.mdelay = @ * 2,
                   !.status = IF r.mtries - 1 > 0 THEN "running" ELSE "returned",
                   !.result = r.ret]

\* one turn of the while loop of f_retry: f is invoked and either returns
\* out.value or raises; an exception outside ExceptionToCheck propagates
f_retry(r, out) ==
    IF ~out.raised
    THEN [r EXCEPT !.calls = @ + 1, !.outcomes = Append(@, "ok"),
                   !.status = "returned", !.result = out.value]
    ELSE IF ~out.matches
    THEN [r EXCEPT !.calls = @ + 1, !.outcomes = Append(@, "other"),
                   !.status = "propagated"]
    ELSE [r EXCEPT !.calls = @ + 1, !.outcomes = Append(@, "raise"),
                   !.slept = Append(@, r.mdelay),
                   !.mtries = @ - 1,
                   !.mdelay = @ * r.backoff,
                   !.status = IF r.mtries - 1 > 0 THEN "running" ELSE "returned",
                   !.result = r.ret]

\* what f does in one invocation
Returns(v) == [raised |-> FALSE, matches |-> FALSE, value |-> v]
Raises == [raised |-> TRUE, matches |-> TRUE, value |-> <<>>]
RaisesOther == [raised |-> TRUE, matches |-> FALSE, value |-> <<>>]

-----------------------------------------------------------------------------
(* The retry wrapper on its own: any tries / delay / backoff / ret *)

RetryDelays == {1, 3}
RetryBackoffs == {1, 2}
RetryDefaults == {<<>>, <<"default">>}
RetryValue == <<"value">>

\* the paths a DiskMonitor configuration may name
Paths == {"/", "/data"}

\* time.time() at the start, in minutes: far above every cooldown
Epoch == 100

\* the threads that enter _run_check: the interval job registered by
\* get_service, and api_check_now (command_action enters it the same way)
Callers == {"job", "api"}

\* the locals of a pass before it has read anything
NoUsage == [total |-> 0, free |-> 0]

\* a thread that is not inside _run_check; result is what its last call returned
NoCheck == [pc |-> "idle", paths |-> <<>>, i |-> 1, usage |-> NoUsage, time_now |-> 0,
            last |-> 0, in_cooldown |-> FALSE, was_under |-> FALSE,
            problems |-> FALSE, result |-> "none"]

\* None, or a dict without keys
NoConfig == [k \in {} |-> 0]

\* the host thread is not inside init_plugin
NoInit == [pc |-> "idle", cfg |-> NoConfig, drop |-> <<>>]

\* DiskMonitor.__init__: empty alert state and the default configuration
DiskMonitorNew ==
    [_paths |-> <<"/">>, _threshold_pct |-> 10, _interval_minutes |-> 5,
     _cooldown_minutes |-> 60,
     _only_once_until_recover |-> TRUE, _ignore_missing_path |-> TRUE,
     at |-> [p \in Paths |->
               [_last_alert_at |-> 0, _alerted_under_threshold |-> FALSE,
                since |-> 0]],
     time |-> Epoch,
     init |-> NoInit,
     call |-> [c \in Callers |-> NoCheck]]

\* no job of the scheduler has run yet
NoRuns ==
    [s \in {"cron", "date"} |->
        [pc |-> "idle", fulladd |-> FALSE, rt |-> RetryInit(0, 0, 1, <<>>),
         resps |-> <<>>, list |-> <<>>, idx |-> 1, cnt |-> 0, src_url |-> <<>>,
         wrote |-> {}, first |-> FALSE, cfgFulladd |-> FALSE,
         rootFailed |-> FALSE, wfail |-> FALSE, url |-> "", period |-> "None", had |-> {}]]

PluginInit ==
    /\ store = [enabled |-> FALSE, cron |-> "", onlyonce |-> FALSE, fulladd |-> FALSE,
                storageplace |-> "/downloads/strm"]
    /\ _enabled = FALSE
    /\ _cron = ""
    /\ _onlyonce = FALSE
    /\ _fulladd = FALSE
    /\ _storageplace = ""
    /\ _date = "None"
    /\ _scheduler = [live |-> FALSE, jobs |-> {}, running |-> FALSE, args |-> FALSE]
    /\ host = [pc |-> "idle", op |-> "none", given |-> FALSE, config |-> store,
               fulladdIn |-> FALSE, onlyonceIn |-> FALSE,
               inflight |-> {}, cronError |-> FALSE, updated |-> FALSE]
    /\ run = NoRuns
    /\ files = [n \in {<<"a">>, <<"b", " ", "c">>} |-> [exists |-> FALSE, content |-> <<>>]]
    /\ rootExists \in BOOLEAN
    /\ now = [year |-> 2025, month |-> 3]
    /\ hist = [ticks |-> 0, firedSince |-> FALSE]
    /\ dm = DiskMonitorNew

\* no pure function is being applied
NoCall == [op |-> "none"]

InitRetry ==
    /\ PluginInit
    /\ rootExists = FALSE
    /\ fn = NoCall
    /\ \E tries \in 0..MaxTries, delay \in RetryDelays, backoff \in RetryBackoffs,
          ret \in RetryDefaults :
            rt = RetryInit(tries, delay, backoff, ret)

\* f returns a value
RetryCallReturns ==
    /\ rt.status = "running"
    /\ rt' = f_retry(rt, Returns(RetryValue))
    /\ UNCHANGED pluginVars

\* f raises an exception of the class ExceptionToCheck
RetryCallRaises ==
    /\ rt.status = "running"
    /\ rt' = f_retry(rt, Raises)
    /\ UNCHANGED pluginVars

\* f raises an exception outside ExceptionToCheck
RetryCallRaisesOther ==
    /\ rt.status = "running"
    /\ rt' = f_retry(rt, RaisesOther)
    /\ UNCHANGED pluginVars

NextRetry == RetryCallReturns \/ RetryCallRaises \/ RetryCallRaisesOther

SpecRetry == InitRetry /\ [][NextRetry]_vars

-----------------------------------------------------------------------------
(* The remote catalog: what the two endpoints may answer *)

NameA == <<"a">>
NameB == <<"b", " ", "c">>
Names == {NameA, NameB}

ResourcesHost == "resources.ani.rip"
OpenaniHost == "openani.an-i.workers.dev"

\* links as the feed carries them
LinkA1 == <<"https://", ResourcesHost, "/", "2025-1", "/", "a", ".mp4", "?d=true">>
LinkA2 == <<"https://", ResourcesHost, "/", "a", ".mp4">>
LinkB1 == <<"https://", ResourcesHost, "/", "2025-1", "/", "b", "%20", "c", "?d=mp4">>

\* a feed answer: no response at all (get_res gives None), a document that is
\* not well-formed XML, a well-formed document without <item> elements, or a
\* document with <item> elements
FeedResponses ==
    { [kind |-> "none", items |-> <<>>],
      [kind |-> "malformed", items |-> <<>>],
      [kind |-> "xml", items |-> <<>>],
      [kind |-> "xml", items |-> << [title |-> NameA, link |-> LinkA1],
                                    [title |-> NameB, link |-> LinkB1] >>],
      [kind |-> "xml", items |-> << [title |-> NameA, link |-> LinkA2],
                                    [title |-> NameB, link |-> <<>>] >>] }

\* one element of the listing: an object (with or without a string "name"), or a bare value
ItemObj(name) == [isdict |-> TRUE, isstr |-> TRUE, text |-> name]
ItemObjNoName == [isdict |-> TRUE, isstr |-> FALSE, text |-> <<>>]
ItemStr(name) == [isdict |-> FALSE, isstr |-> TRUE, text |-> name]
ItemNum == [isdict |-> FALSE, isstr |-> FALSE, text |-> <<>>]

\* a listing answer: the request raises, no response (post gives None), a body
\* that is not JSON, a JSON body whose top level is an array, or a JSON object
\* with "files" and/or "list"
ListingResponses ==
    { [kind |-> "raise", files |-> <<>>, list |-> <<>>],
      [kind |-> "none", files |-> <<>>, list |-> <<>>],
      [kind |-> "nonjson", files |-> <<>>, list |-> <<>>],
      [kind |-> "array", files |-> <<>>, list |-> <<>>],
      [kind |-> "object",
       files |-> << ItemObj(NameA), ItemStr(<<" ">> \o NameB \o <<" ">>),
                    ItemObj(<<" ", " ">>), ItemObjNoName, ItemNum >>,
       list |-> << ItemStr(NameB) >>],
      [kind |-> "object", files |-> <<>>, list |-> << ItemStr(NameA) >>] }

-----------------------------------------------------------------------------
(* PeriodCalculator and CatalogClient *)

\* a mutation of __get_ani_season: the first bucket is one month too long
get_ani_season_late(idx_month, clock) ==
    LET month == IF idx_month # 0 THEN idx_month ELSE clock.month
        season == IF month \in {1, 2, 3, 4} THEN 1
                  ELSE IF month \in {5, 6} THEN 4
                  ELSE IF month \in {7, 8, 9} THEN 7
                  ELSE 10
    IN  ToString(clock.year) \o "-" \o ToString(season)

\* ANiStrm.__get_ani_season: the value assigned to self._date and returned
__get_ani_season(idx_month, clock) ==
    LET month == IF idx_month # 0 THEN idx_month ELSE clock.month
        season == IF month \in {1, 2, 3} THEN 1
                  ELSE IF month \in {4, 5, 6} THEN 4
                  ELSE IF month \in {7, 8, 9} THEN 7
                  ELSE 10
    IN  ToString(clock.year) \o "-" \o ToString(season)

RECURSIVE season_names(_)
\* the loop of get_current_season_list over files_json
season_names(items) ==
    IF items = <<>> THEN <<>>
    ELSE LET item == Head(items)
             keep == item.isstr /\ strip(item.text) # <<>>
         IN  (IF keep THEN <<strip(item.text)>> ELSE <<>>) \o season_names(Tail(items))

\* a mutation of get_current_season_list: a missing response is raised to the
\* retry wrapper, and a top-level JSON array is swallowed like a non-JSON body
season_list_retrying(rep) ==
    IF rep.kind \in {"raise", "none"} THEN Raises
    ELSE IF rep.kind \in {"nonjson", "array"} THEN Returns(<<>>)
    ELSE Returns(season_names(IF rep.files # <<>> THEN rep.files ELSE rep.list))

\* one invocation of the undecorated get_current_season_list, given the answer
\* to its POST: the names it returns, or that it raises
season_list(rep) ==
    IF rep.kind = "raise" THEN Raises
    ELSE IF rep.kind \in {"none", "nonjson"} THEN Returns(<<>>)
    ELSE IF rep.kind = "array" THEN Raises
    ELSE Returns(season_names(IF rep.files # <<>> THEN rep.files ELSE rep.list))

RECURSIVE latest_items(_)
\* the loop of get_latest_list over the <item> elements
latest_items(items) ==
    IF items = <<>> THEN <<>>
    ELSE LET item == Head(items)
             fixed == ReplaceAll(item.link, ResourcesHost, <<OpenaniHost>>)
         IN  << [title |-> item.title, link |-> _normalize_openani_url(fixed)] >>
             \o latest_items(Tail(items))

\* a mutation of get_latest_list: an unparsable feed is swallowed as an empty list
latest_list_swallow(ret) ==
    IF ret.kind = "none" THEN Raises
    ELSE IF ret.kind = "malformed" THEN Returns(<<>>)
    ELSE Returns(latest_items(ret.items))

\* one invocation of the undecorated get_latest_list, given the answer to its GET
latest_list(ret) ==
    IF ret.kind \in {"none", "malformed"} THEN Raises
    ELSE Returns(latest_items(ret.items))

\* list entries as __task hands them to __touch_strm_file: a season name has no file_url
NameEntries(names) == [i \in 1..Len(names) |-> [title |-> names[i], link |-> <<>>]]

-----------------------------------------------------------------------------
(* The plugin: scheduler binding, __task and the materializer *)

\* @retry(Exception, tries=3, logger=logger, ret=[]) with the defaults delay=3, backoff=1
Tries == 3
Delay == 3
Backoff == 1

\* the crontab strings a user may save; CronTrigger.from_crontab raises on the last
CronOk == "*/20 22,23,0,1 * * *"
CronBad == "bad"

\* a mutation of CronValid: from_crontab accepts every string
CronValid_any(c) == TRUE

CronValid(c) == c = CronOk

Slots == {"cron", "date"}

Configs == [enabled : BOOLEAN, cron : {"", CronOk, CronBad}, onlyonce : BOOLEAN,
            fulladd : BOOLEAN, storageplace : {"/downloads/strm"}]

NoScheduler == [live |-> FALSE, jobs |-> {}, running |-> FALSE, args |-> FALSE]

\* a __task execution that has started and not yet returned
Active(s) == run[s].pc \in {"fetch", "touch", "open", "write"}

\* a mutation of Blocked: shutdown() does not wait (wait=False), the running
\* jobs are dropped with their scheduler
Blocked_nowait == FALSE

\* BackgroundScheduler.shutdown() waits for the jobs its executor is running
Blocked == _scheduler.live /\ _scheduler.running /\ \E s \in Slots : Active(s)

\* a mutation of add_jobs: the one-shot job needs enabled as well
add_jobs_enabled_only(en, cr, oo) ==
    (IF en /\ cr # "" /\ CronValid(cr) THEN {"cron"} ELSE {})
        \cup (IF en /\ oo THEN {"date"} ELSE {})

\* the jobs init_plugin registers with its new scheduler (lines 95-113): the
\* cron job when enabled with a cron expression that parses, the date job
\* when onlyonce is set
add_jobs(en, cr, oo) ==
    (IF en /\ cr # "" /\ CronValid(cr) THEN {"cron"} ELSE {})
        \cup (IF oo THEN {"date"} ELSE {})

\* a mutation of __update_config: the saved configuration is switched off
update_config_disabled(oo, cr, en, fa, sp) ==
    [onlyonce |-> oo, cron |-> cr, enabled |-> FALSE, fulladd |-> fa, storageplace |-> sp]

\* ANiStrm.__update_config: the configuration saved from the five attributes
__update_config(oo, cr, en, fa, sp) ==
    [onlyonce |-> oo, cron |-> cr, enabled |-> en, fulladd |-> fa, storageplace |-> sp]

\* init_plugin after its stop_service call has returned (lines 84-122)
Configure(given, config) ==
    LET en == IF given THEN config.enabled ELSE _enabled
        cr == IF given THEN config.cron ELSE _cron
        oo == IF given THEN config.onlyonce ELSE _onlyonce
        fa == IF given THEN config.fulladd ELSE _fulladd
        sp == IF given THEN config.storageplace ELSE _storageplace
        jobs == add_jobs(en, cr, oo)
    IN  /\ _enabled' = en
        /\ _cron' = cr
        /\ _storageplace' = sp
        /\ _onlyonce' = IF oo THEN FALSE ELSE oo
        /\ _fulladd' = IF oo THEN FALSE ELSE fa
        /\ _scheduler' = IF en \/ oo
                         THEN [live |-> TRUE, jobs |-> jobs, running |-> jobs # {},
                               args |-> IF oo THEN fa ELSE FALSE]
                         ELSE NoScheduler
        /\ store' = IF oo
                    THEN __update_config(FALSE, cr, en, FALSE, sp)
                    ELSE IF given THEN config ELSE store
        /\ host' = [pc |-> "idle", op |-> "init", given |-> given, config |-> store',
                    fulladdIn |-> fa, onlyonceIn |-> oo, inflight |-> {},
                    cronError |-> (en /\ cr # "" /\ ~CronValid(cr)),
                    updated |-> oo]
        /\ hist' = [hist EXCEPT !.firedSince = FALSE]
        /\ run' = NoRuns

\* init_plugin(config): the host has saved `config` (when given) and hands it over
init_plugin(given, config) ==
    /\ host.pc = "idle"
    /\ IF Blocked
       THEN /\ _scheduler' = [_scheduler EXCEPT !.jobs = {}]
            /\ host' = [host EXCEPT !.pc = "shutdown", !.op = "init",
                                    !.given = given, !.config = config]
            /\ store' = IF given THEN config ELSE store
            /\ UNCHANGED <<_enabled, _cron, _onlyonce, _fulladd, _storageplace, hist, run>>
       ELSE Configure(given, config)
    /\ UNCHANGED <<_date, files, rootExists, now, aux>>

\* stop_service()
stop_service ==
    /\ host.pc = "idle"
    /\ IF Blocked
       THEN /\ _scheduler' = [_scheduler EXCEPT !.jobs = {}]
            /\ host' = [host EXCEPT !.pc = "shutdown", !.op = "stop",
                                    !.inflight = {s \in Slots : Active(s)}]
            /\ UNCHANGED run
       ELSE /\ _scheduler' = NoScheduler
            /\ host' = [host EXCEPT !.op = "stop", !.inflight = {}]
            /\ run' = NoRuns
    /\ UNCHANGED <<store, _enabled, _cron, _onlyonce, _fulladd, _storageplace,
                   _date, files, rootExists, now, hist, aux>>

\* the shutdown() inside stop_service returns once no job is running
shutdown_returns ==
    /\ host.pc = "shutdown"
    /\ ~\E s \in Slots : Active(s)
    /\ IF host.op = "init"
       THEN Configure(host.given, host.config)
       ELSE /\ _scheduler' = NoScheduler
            /\ host' = [host EXCEPT !.pc = "idle", !.inflight = {}]
            /\ run' = NoRuns
            /\ UNCHANGED <<store, _enabled, _cron, _onlyonce, _fulladd, _storageplace, hist>>
    /\ UNCHANGED <<_date, files, rootExists, now, aux>>

\* a mutation of __task: the one-shot run reads self._fulladd when it executes
\* instead of the argument captured by add_job
task_reads_flag(s) ==
    /\ _scheduler.live /\ _scheduler.running
    /\ s \in _scheduler.jobs
    /\ ~Active(s)
    /\ run' = [run EXCEPT ![s] =
                 [pc |-> "fetch",
                  fulladd |-> IF s = "date" THEN _fulladd ELSE FALSE,
                  rt |-> RetryInit(Tries, Delay, Backoff, <<>>),
                  resps |-> <<>>, list |-> <<>>, idx |-> 1, cnt |-> 0, src_url |-> <<>>,
                  wrote |-> {}, first |-> ~hist.firedSince,
                  cfgFulladd |-> host.fulladdIn,
                  rootFailed |-> FALSE, wfail |-> FALSE, url |-> "", period |-> "None",
                  had |-> {n \in DOMAIN files : files[n].exists}]]
    /\ _scheduler' = IF s = "date" THEN [_scheduler EXCEPT !.jobs = @ \ {"date"}]
                     ELSE _scheduler
    /\ hist' = [hist EXCEPT !.firedSince = TRUE]
    /\ UNCHANGED <<store, _enabled, _cron, _onlyonce, _fulladd, _storageplace, _date,
                   host, files, rootExists, now, aux>>

\* the scheduler fires job s: __task starts (cnt = 0); the cron job was added
\* without args, the date job with args=[self._fulladd]; a job whose previous
\* instance is still running is skipped (max_instances = 1)
__task(s) ==
    /\ _scheduler.live /\ _scheduler.running
    /\ s \in _scheduler.jobs
    /\ ~Active(s)
    /\ run' = [run EXCEPT ![s] =
                 [pc |-> "fetch",
                  fulladd |-> IF s = "date" THEN _scheduler.args ELSE FALSE,
                  rt |-> RetryInit(Tries, Delay, Backoff, <<>>),
                  resps |-> <<>>, list |-> <<>>, idx |-> 1, cnt |-> 0, src_url |-> <<>>,
                  wrote |-> {}, first |-> ~hist.firedSince,
                  cfgFulladd |-> host.fulladdIn,
                  rootFailed |-> FALSE, wfail |-> FALSE, url |-> "", period |-> "None",
                  had |-> {n \in DOMAIN files : files[n].exists}]]
    /\ _scheduler' = IF s = "date" THEN [_scheduler EXCEPT !.jobs = @ \ {"date"}]
                     ELSE _scheduler
    /\ hist' = [hist EXCEPT !.firedSince = TRUE]
    /\ UNCHANGED <<store, _enabled, _cron, _onlyonce, _fulladd, _storageplace, _date,
                   host, files, rootExists, now, aux>>

\* __task once its retrieval call has returned or raised
AfterFetch(r, r2, rep, entries) ==
    [r EXCEPT !.rt = r2,
              !.resps = Append(@, rep),
              !.list = IF r2.status = "returned" THEN entries ELSE <<>>,
              !.pc = IF r2.status = "running" THEN "fetch"
                     ELSE IF r2.status = "propagated" THEN "raised"
                     ELSE IF entries = <<>> THEN "done" ELSE "touch"]

\* an attempt of the decorated get_current_season_list inside run s starts
\* (line 150): the URL is built with self.__get_ani_season(), which stores
\* the period in self._date (line 142) before the request is sent
get_current_season_list_url(s) ==
    /\ run[s].pc = "fetch" /\ run[s].fulladd
    /\ run[s].rt.status = "running"
    /\ run[s].url = ""
    /\ run' = [run EXCEPT ![s].url = __get_ani_season(0, now),
                          ![s].period = __get_ani_season(0, now)]
    /\ _date' = __get_ani_season(0, now)
    /\ UNCHANGED <<store, _enabled, _cron, _onlyonce, _fulladd, _storageplace,
                   _scheduler, host, files, rootExists, now, hist, aux>>

\* the POST of that attempt is answered (lines 151-171) and the retry wrapper
\* returns, or sleeps and goes round again
get_current_season_list(s, answers) ==
    /\ run[s].pc = "fetch" /\ run[s].fulladd
    /\ run[s].rt.status = "running"
    /\ run[s].url # ""
    /\ \E rep \in answers :
         LET r2 == f_retry(run[s].rt, season_list(rep))
         IN  run' = [run EXCEPT ![s] =
                        [AfterFetch(@, r2, rep, NameEntries(r2.result)) EXCEPT
                            !.url = ""]]
    /\ UNCHANGED <<store, _enabled, _cron, _onlyonce, _fulladd, _storageplace, _date,
                   _scheduler, host, files, rootExists, now, hist, aux>>

\* one attempt of the decorated get_latest_list inside run s
get_latest_list(s, answers) ==
    /\ run[s].pc = "fetch" /\ ~run[s].fulladd
    /\ run[s].rt.status = "running"
    /\ \E ret \in answers :
         LET r2 == f_retry(run[s].rt, latest_list(ret))
         IN  run' = [run EXCEPT ![s] = AfterFetch(@, r2, ret, r2.result)]
    /\ UNCHANGED <<store, _enabled, _cron, _onlyonce, _fulladd, _storageplace, _date,
                   _scheduler, host, files, rootExists, now, hist, aux>>

\* a mutation of NextEntry: the loop does not move past an entry
NextEntry_stuck(r, created) ==
    [r EXCEPT !.cnt = IF created THEN @ + 1 ELSE @,
              !.pc = IF r.idx < Len(r.list) THEN "touch" ELSE "done"]

\* the loop of __task moves to the next entry, or logs the count and returns
NextEntry(r, created) ==
    [r EXCEPT !.cnt = IF created THEN @ + 1 ELSE @,
              !.idx = IF r.idx < Len(r.list) THEN @ + 1 ELSE @,
              !.pc = IF r.idx < Len(r.list) THEN "touch" ELSE "done"]

\* a mutation of season_url: the file name is not percent-encoded
season_url_raw(file_name, date) ==
    <<"https://", OpenaniHost, "/", date, "/">> \o file_name \o <<".mp4", "?d=true">>

\* the URL written when no file_url is given (lines 233-235)
season_url(file_name, date) ==
    <<"https://", OpenaniHost, "/", date, "/">> \o quote(file_name) \o <<".mp4", "?d=true">>

RECURSIVE Digits(_)
\* the decimal digits of a natural number, as str() prints them
Digits(n) == IF n < 10 THEN <<ToString(n)>> ELSE Digits(n \div 10) \o <<ToString(n % 10)>>

\* the period strings __get_ani_season can give, by year and first month
PeriodTexts == { [text |-> ToString(y) \o "-" \o ToString(q), year |-> y, season |-> q] :
                   y \in 2025..2027, q \in {1, 4, 7, 10} }

\* the characters of a lexeme, as file.write puts them into the file
Spell(x) ==
    CASE x = "https://" -> <<"h", "t", "t", "p", "s", ":", "/", "/">>
      [] x = OpenaniHost -> <<"o", "p", "e", "n", "a", "n", "i", ".", "a", "n", "-", "i", ".",
                              "w", "o", "r", "k", "e", "r", "s", ".", "d", "e", "v">>
      [] x = ResourcesHost -> <<"r", "e", "s", "o", "u", "r", "c", "e", "s", ".",
                                "a", "n", "i", ".", "r", "i", "p">>
      [] x = ".mp4" -> <<".", "m", "p", "4">>
      [] x = "?d=true" -> <<"?", "d", "=", "t", "r", "u", "e">>
      [] x = "?d=mp4" -> <<"?", "d", "=", "m", "p", "4">>
      [] x = "%20" -> <<"%", "2", "0">>
      [] x = "None" -> <<"N", "o", "n", "e">>
      [] x = "old" -> <<"o", "l", "d">>
      [] \E t \in PeriodTexts : t.text = x ->
             LET t == CHOOSE t \in PeriodTexts : t.text = x
             IN  Digits(t.year) \o <<"-">> \o Digits(t.season)
      [] OTHER -> <<x>>

RECURSIVE TextLen(_)
\* len() of a text: its number of characters
TextLen(s) == IF s = <<>> THEN 0 ELSE Len(Spell(Head(s))) + TextLen(Tail(s))

RECURSIVE DropChars(_, _)
\* s[k:]: the text without its first k characters
DropChars(s, k) ==
    IF k = 0 \/ s = <<>> THEN s
    ELSE LET head == Spell(Head(s))
         IN  IF Len(head) <= k THEN DropChars(Tail(s), k - Len(head))
             ELSE SubSeq(head, k + 1, Len(head)) \o Tail(s)

RECURSIVE TakeChars(_, _)
\* s[:k]: the first k characters of the text
TakeChars(s, k) ==
    IF k = 0 \/ s = <<>> THEN <<>>
    ELSE LET head == Spell(Head(s))
         IN  IF Len(head) <= k THEN <<Head(s)>> \o TakeChars(Tail(s), k - Len(head))
             ELSE SubSeq(head, 1, k)

\* no limit on the size of the file: more characters than any URL has
NoLimit == 999

\* the sizes at which the file system refuses to take more of a file (a full
\* disk, a quota, RLIMIT_FSIZE), in characters
Limits == {NoLimit, 0, 10, 45}

\* what a file holding `old` holds after `new` has been written at offset 0
\* through a handle that is then closed: the bytes beyond `new` stay
Overlay(old, new) ==
    IF TextLen(new) >= TextLen(old) THEN new ELSE new \o DropChars(old, TextLen(new))

\* __touch_strm_file up to the os.path.exists test of the target (lines 225-242);
\* makedirs, when it is called, succeeds or raises
__touch_strm_file(s, makedirs) ==
    /\ run[s].pc = "touch"
    /\ LET r == run[s]
           e == r.list[r.idx]
           src_url == IF e.link = <<>> THEN season_url(e.title, _date)
                      ELSE _normalize_openani_url(e.link)
           needed == _storageplace # "" /\ ~rootExists
       IN  \E made \in (IF needed THEN makedirs ELSE {TRUE}) :
             IF ~made
             THEN /\ run' = [run EXCEPT ![s] = [NextEntry(r, FALSE) EXCEPT !.rootFailed = TRUE]]
                  /\ UNCHANGED rootExists
             ELSE /\ rootExists' = (rootExists \/ needed)
                  /\ run' = [run EXCEPT ![s] =
                               IF files[e.title].exists
                               THEN NextEntry(r, FALSE)
                               ELSE [r EXCEPT !.pc = "open", !.src_url = src_url]]
    /\ UNCHANGED <<store, _enabled, _cron, _onlyonce, _fulladd, _storageplace, _date,
                   _scheduler, host, files, now, hist, aux>>

\* open(file_path, 'w') (line 245): it creates the file, or empties the file
\* another run has created since the exists test, or it raises
__touch_strm_file_open(s, opens) ==
    /\ run[s].pc = "open"
    /\ LET r == run[s]
           name == r.list[r.idx].title
       IN  \E opened \in opens :
             IF opened
             THEN /\ files' = [files EXCEPT ![name] = [exists |-> TRUE, content |-> <<>>]]
                  /\ run' = [run EXCEPT ![s] = [r EXCEPT !.pc = "write",
                                                         !.wrote = @ \cup {name}]]
             ELSE /\ run' = [run EXCEPT ![s] = [NextEntry(r, FALSE) EXCEPT !.wfail = TRUE]]
                  /\ UNCHANGED files
    /\ UNCHANGED <<store, _enabled, _cron, _onlyonce, _fulladd, _storageplace, _date,
                   _scheduler, host, rootExists, now, hist, aux>>

\* file.write(src_url) and the close that ends the with block (lines 245-251):
\* the text is buffered and reaches the file when the handle is closed, at the
\* handle's own offset 0, over whatever the file holds by then; when the file
\* system takes only the first `limit` characters, those are in the file, the
\* close raises and the entry is not counted
__touch_strm_file_write(s, limits) ==
    /\ run[s].pc = "write"
    /\ LET r == run[s]
           name == r.list[r.idx].title
       IN  \E limit \in limits :
             LET whole == TextLen(r.src_url) <= limit
                 taken == IF whole THEN r.src_url ELSE TakeChars(r.src_url, limit)
             IN  /\ files' = [files EXCEPT ![name] =
                                 [exists |-> TRUE, content |-> Overlay(@.content, taken)]]
                 /\ run' = [run EXCEPT ![s] =
                              [NextEntry(r, whole) EXCEPT !.wfail = @ \/ ~whole]]
    /\ UNCHANGED <<store, _enabled, _cron, _onlyonce, _fulladd, _storageplace, _date,
                   _scheduler, host, rootExists, now, hist, aux>>

\* the calendar moves on to the next month
Tick ==
    /\ hist.ticks < MaxTicks
    /\ now' = IF now.month = 12 THEN [year |-> now.year + 1, month |-> 1]
              ELSE [now EXCEPT !.month = @ + 1]
    /\ hist' = [hist EXCEPT !.ticks = @ + 1]
    /\ UNCHANGED <<store, _enabled, _cron, _onlyonce, _fulladd, _storageplace, _date,
                   _scheduler, host, run, files, rootExists, aux>>

-----------------------------------------------------------------------------
(* The whole plugin under every configuration, with overlapping jobs; the  *)
(* remote answers are one failing and one good answer per endpoint         *)

SchedFeed == { ret \in FeedResponses :
                 \/ ret.kind = "malformed"
                 \/ ret.kind = "xml" /\ ret.items # <<>> /\ ret.items[1].link = LinkA2 }
SchedListing == { rep \in ListingResponses :
                    rep.kind = "raise" \/ (rep.kind = "object" /\ rep.files = <<>>) }

Init ==
    /\ PluginInit
    /\ rootExists = FALSE
    /\ rt = RetryInit(0, 0, 1, <<>>)
    /\ fn = NoCall

Next ==
    \/ \E config \in Configs : init_plugin(TRUE, config)
    \/ init_plugin(FALSE, store)
    \/ stop_service
    \/ shutdown_returns
    \/ \E s \in Slots : __task(s)
    \/ \E s \in Slots : get_current_season_list_url(s)
    \/ \E s \in Slots : get_current_season_list(s, SchedListing)
    \/ \E s \in Slots : get_latest_list(s, SchedFeed)
    \/ \E s \in Slots : __touch_strm_file(s, {TRUE})
    \/ \E s \in Slots : __touch_strm_file_open(s, {TRUE})
    \/ \E s \in Slots : __touch_strm_file_write(s, {NoLimit})
    \/ Tick

Spec == Init /\ [][Next]_vars

\* the same plugin with the calendar standing still: the host's calls and the
\* two jobs, without Tick
NextHost ==
    \/ \E config \in Configs : init_plugin(TRUE, config)
    \/ init_plugin(FALSE, store)
    \/ stop_service
    \/ shutdown_returns
    \/ \E s \in Slots : __task(s)
    \/ \E s \in Slots : get_current_season_list_url(s)
    \/ \E s \in Slots : get_current_season_list(s, SchedListing)
    \/ \E s \in Slots : get_latest_list(s, SchedFeed)
    \/ \E s \in Slots : __touch_strm_file(s, {TRUE})
    \/ \E s \in Slots : __touch_strm_file_open(s, {TRUE})
    \/ \E s \in Slots : __touch_strm_file_write(s, {NoLimit})

SpecHost == Init /\ [][NextHost]_vars

-----------------------------------------------------------------------------
(* One scheduler with one job, under every remote answer and every file    *)
(* system outcome: the job runs (the cron job again and again) and nothing *)
(* overlaps it                                                             *)

\* configurations that register exactly one job
RunConfigs == { c \in Configs : c.cron = CronOk /\ c.enabled # c.onlyonce }

\* a storage root left by an earlier life of the process
OldContent == <<"old">>
NoFiles == [n \in Names |-> [exists |-> FALSE, content |-> <<>>]]

InitRun ==
    /\ PluginInit
    /\ rt = RetryInit(0, 0, 1, <<>>)
    /\ fn = NoCall

\* the storage root already holds a reference file for one name
OperatorSeedsFile ==
    /\ host.op = "none"
    /\ files = NoFiles
    /\ files' = [files EXCEPT ![NameA] = [exists |-> TRUE, content |-> OldContent]]
    /\ rootExists' = TRUE
    /\ UNCHANGED <<store, _enabled, _cron, _onlyonce, _fulladd, _storageplace, _date,
                   _scheduler, host, run, now, hist, aux>>

NextRun ==
    \/ OperatorSeedsFile
    \/ \E config \in RunConfigs : host.op = "none" /\ init_plugin(TRUE, config)
    \/ \E s \in Slots : __task(s)
    \/ \E s \in Slots : get_current_season_list_url(s)
    \/ \E s \in Slots : get_current_season_list(s, ListingResponses)
    \/ \E s \in Slots : get_latest_list(s, FeedResponses)
    \/ \E s \in Slots : __touch_strm_file(s, BOOLEAN)
    \/ \E s \in Slots : __touch_strm_file_open(s, BOOLEAN)
    \/ \E s \in Slots : __touch_strm_file_write(s, Limits)
    \/ Tick

SpecRun == InitRun /\ [][NextRun]_vars

\* the next step of the job thread running __task in slot s
RunStep(s) ==
    \/ get_current_season_list_url(s)
    \/ get_current_season_list(s, ListingResponses)
    \/ get_latest_list(s, FeedResponses)
    \/ __touch_strm_file(s, BOOLEAN)
    \/ __touch_strm_file_open(s, BOOLEAN)
    \/ __touch_strm_file_write(s, Limits)

\* a job thread that has started keeps executing: every request, sleep and file
\* operation of __task returns or raises
SpecRunFair == InitRun /\ [][NextRun]_vars /\ \A s \in Slots : WF_vars(RunStep(s))

-----------------------------------------------------------------------------
(* One scheduler with both jobs, whose runs may overlap, under every        *)
(* outcome of open and write                                                *)

\* configurations that register the cron job and the one-shot job
BothJobs == { c \in Configs : c.cron = CronOk /\ c.enabled /\ c.onlyonce }

NextWrite ==
    \/ \E config \in BothJobs : host.op = "none" /\ init_plugin(TRUE, config)
    \/ \E s \in Slots : __task(s)
    \/ \E s \in Slots : get_current_season_list_url(s)
    \/ \E s \in Slots : get_current_season_list(s, SchedListing)
    \/ \E s \in Slots : get_latest_list(s, SchedFeed)
    \/ \E s \in Slots : __touch_strm_file(s, {TRUE})
    \/ \E s \in Slots : __touch_strm_file_open(s, BOOLEAN)
    \/ \E s \in Slots : __touch_strm_file_write(s, Limits)

SpecWrite == Init /\ [][NextWrite]_vars

-----------------------------------------------------------------------------
(* _normalize_openani_url on its own: every URL of at most MaxLen lexemes  *)
(* over an alphabet that puts the three markers at any position            *)

UrlAlphabet == {"a", ".mp4", "?d=mp4", "?d=true"}
Urls == UNION { [1..n -> UrlAlphabet] : n \in 0..MaxLen }

InitNorm ==
    /\ PluginInit
    /\ rootExists = FALSE
    /\ rt = RetryInit(0, 0, 1, <<>>)
    /\ \E url \in Urls : fn = [op |-> "normalize", stage |-> 0, x |-> url, y |-> <<>>, z |-> <<>>]

\* y = normalize(x)
NormalizeOnce ==
    /\ fn.stage = 0
    /\ fn' = [fn EXCEPT !.stage = 1, !.y = _normalize_openani_url(fn.x)]
    /\ UNCHANGED nonFn

\* z = normalize(y)
NormalizeAgain ==
    /\ fn.stage = 1
    /\ fn' = [fn EXCEPT !.stage = 2, !.z = _normalize_openani_url(fn.y)]
    /\ UNCHANGED nonFn

NextNorm == NormalizeOnce \/ NormalizeAgain

SpecNorm == InitNorm /\ [][NextNorm]_vars

-----------------------------------------------------------------------------
(* __get_ani_season on its own: every month of two years, with and without *)
(* the idx_month argument (0 stands for None; Python treats both alike)    *)

Years == {2025, 2026}
Months == 1..12

InitPeriod ==
    /\ PluginInit
    /\ rootExists = FALSE
    /\ rt = RetryInit(0, 0, 1, <<>>)
    /\ \E y \in Years, m \in Months, i \in {0} \cup Months :
         fn = [op |-> "season", stage |-> 0, year |-> y, month |-> m,
               idx_month |-> i, result |-> ""]

\* one call of __get_ani_season at the date (year, month)
get_ani_season_call ==
    /\ fn.stage = 0
    /\ LET date == __get_ani_season(fn.idx_month, [year |-> fn.year, month |-> fn.month])
       IN  /\ fn' = [fn EXCEPT !.stage = 1, !.result = date]
           /\ _date' = date
    /\ UNCHANGED <<store, _enabled, _cron, _onlyonce, _fulladd, _storageplace,
                   _scheduler, host, run, files, rootExists, now, hist, rt, dm>>

NextPeriod == get_ani_season_call

SpecPeriod == InitPeriod /\ [][NextPeriod]_vars

-----------------------------------------------------------------------------------------------------------------------------------------------------
(* DiskMonitor: init_plugin is called by the host whenever the plugin is    *)
(* loaded or its configuration saved; _run_check is entered by the interval *)
(* job and by the API, on threads of their own and without a lock, while    *)
(* time passes and the free space changes.  Times are in minutes.           *)
(* _last_alert_at[p] = 0 stands for a path without an entry                 *)
(* (self._last_alert_at.get(path, 0)), _alerted_under_threshold[p] = FALSE  *)
(* for an entry that is False or missing.  dm.at[p] holds the entries of    *)
(* path p in the two dictionaries and what is observed of it: since counts  *)
(* the alerts posted for p since a check last saw it at or above the        *)
(* threshold.  dm.call[c] is the position of thread c inside _run_check:    *)
(* the list it iterates, the index of the path it is at, the locals of the  *)
(* pass (usage, now, last, in_cooldown, was_under) and whether `problems`   *)
(* is non-empty.  dm.init is the position of the host thread inside         *)
(* init_plugin: the keys of cfg whose store is still to come and the keys   *)
(* it is still to pop.  Every read and every store of an attribute or of a  *)
(* dictionary entry is a step of its own, so that the threads interleave    *)
(* between any two of them.                                                 *)

DiskUsages == { [total |-> 100, free |-> 5], [total |-> 100, free |-> 10],
                [total |-> 0, free |-> 0] }

\* what one pass of the loop of _run_check meets for a path: the path does not
\* exist, shutil.disk_usage raises, or it returns a usage
DiskProbes ==
    { [kind |-> k, usage |-> [total |-> 0, free |-> 0]] : k \in {"missing", "raises"} }
    \cup { [kind |-> "usage", usage |-> u] : u \in DiskUsages }

\* values of the "paths" key: lists (one with a repeated path, one empty), a
\* string of paths separated by commas and line ends, and a value that is
\* neither (a number)
PathValues ==
    { [kind |-> "list", items |-> <<"/">>],
      [kind |-> "list", items |-> <<"/", "/data", "/">>],
      [kind |-> "list", items |-> <<>>],
      [kind |-> "str", items |-> <<" ", "/", ",", ",", " ", "/data", "\n">>],
      [kind |-> "other", items |-> <<>>] }

RECURSIVE SplitLines(_, _)
\* value.replace(",", "\n").splitlines(), each part stripped and the empty
\* parts dropped; `part` is the part read so far
SplitLines(s, part) ==
    IF s = <<>> THEN (IF part = <<>> THEN <<>> ELSE <<part[1]>>)
    ELSE IF Head(s) \in {",", "\n"}
         THEN (IF part = <<>> THEN <<>> ELSE <<part[1]>>) \o SplitLines(Tail(s), <<>>)
         ELSE IF Head(s) = " " THEN SplitLines(Tail(s), part)
         ELSE SplitLines(Tail(s), part \o <<Head(s)>>)

RECURSIVE Dedup(_, _)
\* the loop over `paths` with `seen`: first occurrences, in order
Dedup(paths, seen) ==
    IF paths = <<>> THEN <<>>
    ELSE IF Head(paths) \in seen THEN Dedup(Tail(paths), seen)
    ELSE <<Head(paths)>> \o Dedup(Tail(paths), seen \cup {Head(paths)})

\* DiskMonitor._parse_paths
_parse_paths(value) ==
    LET paths == IF value.kind = "list" THEN value.items
                 ELSE IF value.kind = "str" THEN SplitLines(value.items, <<>>)
                 ELSE <<>>
        result == Dedup(paths, {})
    IN  IF result = <<>> THEN <<"/">> ELSE result

\* the configurations the host hands to init_plugin: every key given
FullConfigs ==
    [paths : {[kind |-> "list", items |-> <<"/", "/data">>]},
     threshold_pct : {10}, interval_minutes : {5}, cooldown_minutes : {1},
     only_once_until_recover : BOOLEAN, ignore_missing_path : {TRUE}]

\* cfg.get(key, current)
Get(cfg, key, current) == IF key \in DOMAIN cfg THEN cfg[key] ELSE current

\* free_pct < self._threshold_pct, with free_pct = (free / total) * 100 if total else 0.0
under_threshold(usage, threshold_pct) ==
    IF usage.total # 0 THEN usage.free * 100 < threshold_pct * usage.total
    ELSE 0 < threshold_pct

\* the keys init_plugin reads after "paths", in the order of its stores
\* (lines 43-47)
AttributeKeys == <<"threshold_pct", "interval_minutes", "cooldown_minutes",
                   "only_once_until_recover", "ignore_missing_path">>

\* the attribute a key is stored in
Attribute(key) ==
    CASE key = "threshold_pct" -> "_threshold_pct"
      [] key = "interval_minutes" -> "_interval_minutes"
      [] key = "cooldown_minutes" -> "_cooldown_minutes"
      [] key = "only_once_until_recover" -> "_only_once_until_recover"
      [] key = "ignore_missing_path" -> "_ignore_missing_path"

\* cfg without a key whose store has been made
Without(cfg, key) == [k \in DOMAIN cfg \ {key} |-> cfg[k]]

\* the next store of init_plugin that cfg has a key for
NextStore(cfg) ==
    AttributeKeys[CHOOSE i \in 1..Len(AttributeKeys) :
                     /\ AttributeKeys[i] \in DOMAIN cfg
                     /\ \A j \in 1..(i - 1) : AttributeKeys[j] \notin DOMAIN cfg]

\* the order of the keys of _last_alert_at in the loop of line 50
PathOrder == <<"/", "/data">>

\* DiskMonitor.init_plugin(config) is called on the host thread: cfg = config
\* or {} and the store of self._paths (lines 41-42)
DiskMonitor_init_plugin(configs) ==
    /\ dm.init.pc = "idle"
    /\ \E config \in configs :
         dm' = [dm EXCEPT
                  !._paths = _parse_paths(Get(config, "paths",
                                                  [kind |-> "list", items |-> @])),
                  !.init = [pc |-> "attributes", cfg |-> Without(config, "paths"),
                            drop |-> <<>>]]
    /\ UNCHANGED nonDm

\* one of the stores of lines 43-47, in their order; a line whose key cfg
\* does not have stores the attribute it has just read and is passed over
init_plugin_store ==
    /\ dm.init.pc = "attributes"
    /\ dm.init.cfg # NoConfig
    /\ LET key == NextStore(dm.init.cfg)
       IN  dm' = [dm EXCEPT ![Attribute(key)] = dm.init.cfg[key],
                            !.init.cfg = Without(@, key)]
    /\ UNCHANGED nonDm

\* list(self._last_alert_at.keys()) (line 50), taken after the last store:
\* the loop will pop the keys that self._paths does not name (line 51); with
\* none of them init_plugin returns
init_plugin_keys ==
    /\ dm.init.pc = "attributes"
    /\ dm.init.cfg = NoConfig
    /\ LET kept == { dm._paths[i] : i \in 1..Len(dm._paths) }
           Dropped(p) == dm.at[p]._last_alert_at # 0 /\ p \notin kept
           drop == SelectSeq(PathOrder, Dropped)
       IN  dm' = [dm EXCEPT !.init = IF drop = <<>> THEN NoInit
                                     ELSE [@ EXCEPT !.pc = "pop", !.drop = drop]]
    /\ UNCHANGED nonDm

\* self._last_alert_at.pop(p, None) (line 52)
init_plugin_pop ==
    /\ dm.init.pc = "pop"
    /\ dm' = [dm EXCEPT !.at[Head(dm.init.drop)]._last_alert_at = 0,
                        !.init.pc = "pop_flag"]
    /\ UNCHANGED nonDm

\* self._alerted_under_threshold.pop(p, None) (line 53); after the last key
\* init_plugin returns
init_plugin_pop_flag ==
    /\ dm.init.pc = "pop_flag"
    /\ dm' = [dm EXCEPT !.at[Head(dm.init.drop)]._alerted_under_threshold = FALSE,
                        !.init = IF Tail(dm.init.drop) = <<>> THEN NoInit
                                 ELSE [@ EXCEPT !.pc = "pop", !.drop = Tail(@)]]
    /\ UNCHANGED nonDm

\* thread c enters _run_check: problems = [] and the loop starts over the
\* list self._paths names at that moment
_run_check(c) ==
    /\ dm.call[c].pc = "idle"
    /\ dm' = [dm EXCEPT !.call[c] = [NoCheck EXCEPT !.pc = "loop", !.paths = dm._paths]]
    /\ UNCHANGED nonDm

\* the pass for a path is over: the loop goes to the next path, or _run_check
\* returns {"ok": len(problems) == 0, ...}
NextPath(k, problem) ==
    IF k.i < Len(k.paths)
    THEN [NoCheck EXCEPT !.pc = "loop", !.paths = k.paths, !.i = k.i + 1,
                         !.problems = k.problems \/ problem]
    ELSE [NoCheck EXCEPT !.result = IF k.problems \/ problem THEN "errors" ELSE "ok"]

\* thread c starts the pass for a path (lines 177-185): the path does not
\* exist (line 179 reads self._ignore_missing_path), shutil.disk_usage raises,
\* or the usage is read
_run_check_probe(c, probes) ==
    /\ dm.call[c].pc = "loop"
    /\ LET k == dm.call[c]
       IN  \E pr \in probes :
             IF pr.kind = "missing"
             THEN dm' = [dm EXCEPT !.call[c] = NextPath(k, ~dm._ignore_missing_path)]
             ELSE IF pr.kind = "raises"
             THEN dm' = [dm EXCEPT !.call[c] = NextPath(k, TRUE)]
             ELSE dm' = [dm EXCEPT !.call[c] = [k EXCEPT !.pc = "now", !.usage = pr.usage]]
    /\ UNCHANGED nonDm

\* the reads of lines 188-191 by thread c, one line a step: now = time.time(),
\* last = self._last_alert_at.get(path, 0), in_cooldown from `now`, `last`
\* and self._cooldown_minutes, was_under = self._alerted_under_threshold.get(
\* path, False)
_run_check_read(c) ==
    /\ dm.call[c].pc \in {"now", "last", "in_cooldown", "was_under"}
    /\ LET k == dm.call[c]
           path == k.paths[k.i]
       IN  dm' = [dm EXCEPT !.call[c] =
                    CASE k.pc = "now" -> [k EXCEPT !.pc = "last", !.time_now = dm.time]
                      [] k.pc = "last" ->
                           [k EXCEPT !.pc = "in_cooldown",
                                     !.last = dm.at[path]._last_alert_at]
                      [] k.pc = "in_cooldown" ->
                           [k EXCEPT !.pc = "was_under", !.last = 0,
                                     !.in_cooldown =
                                        (k.time_now - k.last) < dm._cooldown_minutes]
                      [] k.pc = "was_under" ->
                           [k EXCEPT !.pc = "threshold",
                                     !.was_under =
                                        dm.at[path]._alerted_under_threshold]]
    /\ UNCHANGED nonDm

\* the tests of lines 193, 194 and 197 by thread c, one line a step, each with
\* the attribute as it is when the line runs: free_pct < self._threshold_pct,
\* self._only_once_until_recover and was_under, in_cooldown and not
\* self._only_once_until_recover; a `continue` ends the pass
_run_check_test(c) ==
    /\ dm.call[c].pc \in {"threshold", "once", "cooldown"}
    /\ LET k == dm.call[c]
           path == k.paths[k.i]
       IN  CASE k.pc = "threshold" ->
                  IF under_threshold(k.usage, dm._threshold_pct)
                  THEN dm' = [dm EXCEPT !.call[c] = [k EXCEPT !.pc = "once"]]
                  ELSE dm' = [dm EXCEPT
                                !.call[c] = [k EXCEPT !.pc = IF k.was_under THEN "recovered"
                                                             ELSE "clear"],
                                !.at[path].since = 0]
             [] k.pc = "once" ->
                  IF dm._only_once_until_recover /\ k.was_under
                  THEN dm' = [dm EXCEPT !.call[c] = NextPath(k, FALSE)]
                  ELSE dm' = [dm EXCEPT !.call[c] = [k EXCEPT !.pc = "cooldown"]]
             [] k.pc = "cooldown" ->
                  IF k.in_cooldown /\ ~dm._only_once_until_recover
                  THEN dm' = [dm EXCEPT !.call[c] = NextPath(k, FALSE)]
                  ELSE dm' = [dm EXCEPT !.call[c] = [k EXCEPT !.pc = "alert"]]
    /\ UNCHANGED nonDm

\* post_message, called by _send_alert or _send_recovered of thread c, returns
\* or raises (lines 201-208 and 214-221): an alert that has been posted
\* counts for the path; when post_message raises the pass is over and
\* nothing is written
post_message(c, posts) ==
    /\ dm.call[c].pc \in {"alert", "recovered"}
    /\ LET k == dm.call[c]
           path == k.paths[k.i]
       IN  \E posted \in posts :
             IF ~posted
             THEN dm' = [dm EXCEPT !.call[c] = NextPath(k, TRUE)]
             ELSE IF k.pc = "alert"
             THEN dm' = [dm EXCEPT
                           !.call[c] = [k EXCEPT !.pc = "stamp", !.usage = NoUsage,
                                                 !.in_cooldown = FALSE,
                                                 !.was_under = FALSE],
                           !.at[path].since = IF @ < 2 THEN @ + 1 ELSE @]
             ELSE dm' = [dm EXCEPT !.call[c] = [k EXCEPT !.pc = "clear"]]
    /\ UNCHANGED nonDm

\* the writes that end a pass of thread c, one line a step: after an alert
\* self._last_alert_at[path] = now, with the clock value read at line 188
\* (line 209), then self._alerted_under_threshold[path] = True (line 210);
\* for a path at or above the threshold self._alerted_under_threshold[path] =
\* False (line 222)
_run_check_write(c) ==
    /\ dm.call[c].pc \in {"stamp", "latch", "clear"}
    /\ LET k == dm.call[c]
           path == k.paths[k.i]
       IN  IF k.pc = "stamp"
           THEN dm' = [dm EXCEPT !.call[c] = [k EXCEPT !.pc = "latch", !.time_now = 0],
                                 !.at[path]._last_alert_at = k.time_now]
           ELSE dm' = [dm EXCEPT !.call[c] = NextPath(k, FALSE),
                                 !.at[path]._alerted_under_threshold = (k.pc = "latch")]
    /\ UNCHANGED nonDm

\* a minute passes
TimePasses ==
    /\ dm.time < Epoch + MaxMinutes
    /\ dm' = [dm EXCEPT !.time = @ + 1]
    /\ UNCHANGED nonDm

InitDisk ==
    /\ PluginInit
    /\ rootExists = FALSE
    /\ rt = RetryInit(0, 0, 1, <<>>)
    /\ fn = NoCall

\* the configurations of the checks one at a time: none, the paths alone, and
\* every key
CheckConfigs == {NoConfig} \cup [paths : PathValues] \cup FullConfigs

\* the checks one at a time (the interval job alone), under every probe and
\* outcome of post_message
NextDisk ==
    \/ DiskMonitor_init_plugin(CheckConfigs)
    \/ init_plugin_store
    \/ init_plugin_keys
    \/ init_plugin_pop
    \/ init_plugin_pop_flag
    \/ _run_check("job")
    \/ \E c \in Callers : _run_check_probe(c, DiskProbes)
    \/ \E c \in Callers : _run_check_read(c)
    \/ \E c \in Callers : _run_check_test(c)
    \/ \E c \in Callers : post_message(c, BOOLEAN)
    \/ \E c \in Callers : _run_check_write(c)
    \/ TimePasses

SpecDisk == InitDisk /\ [][NextDisk]_vars

\* the probes of a path that exists and whose usage can be read
GoodProbes == { pr \in DiskProbes : pr.kind = "usage" /\ pr.usage.total # 0 }

\* the interval job and the API in _run_check together, under the default
\* configuration (init_plugin is called without one: "/" alone is monitored,
\* only_once_until_recover is set, nothing is popped) and with nothing failing
NextDiskThreads ==
    \/ DiskMonitor_init_plugin({NoConfig})
    \/ init_plugin_keys
    \/ \E c \in Callers : _run_check(c)
    \/ \E c \in Callers : _run_check_probe(c, GoodProbes)
    \/ \E c \in Callers : _run_check_read(c)
    \/ \E c \in Callers : _run_check_test(c)
    \/ \E c \in Callers : post_message(c, {TRUE})
    \/ \E c \in Callers : _run_check_write(c)
    \/ TimePasses

SpecDiskThreads == InitDisk /\ [][NextDiskThreads]_vars

-----
(* Claims *)

\* a job execution that has started (and may have finished)
Started(s) == run[s].pc # "idle"

\* the kinds of the answers a retrieval call of run s has received so far
AllKinds(s, kinds) == \A i \in 1..Len(run[s].resps) : run[s].resps[i].kind \in kinds

\* C1 (as claimed): the call that finds no file creates it, and once the
\* reference file of a display name exists no later materialize call of any
\* run opens it or changes it: a file that exists is opened by no call, and
\* its content changes only by the write of the call that created it and
\* still has it open.
C1_NoClobber ==
    [][\A n \in Names :
          files[n].exists =>
            /\ \A s \in Slots :
                  ~( /\ run[s].pc = "open"
                     /\ run[s].list[run[s].idx].title = n
                     /\ run'[s].pc = "write" )
            /\ files'[n] # files[n] =>
                  \E s \in Slots :
                     /\ run[s].pc = "write"
                     /\ run[s].list[run[s].idx].title = n
                     /\ run'[s] # run[s]]_vars

\* C2 (as claimed): at most one __task execution is in flight at any time.
C2_SingleRun == ~(Active("cron") /\ Active("date"))

\* C3 (as claimed): right after init_plugin has scheduled a job for a configuration
\* in which onlyonce or fulladd was set, both flags are false in the plugin and in
\* the persisted configuration.
C3_FlagsConsumed ==
    ( /\ host.pc = "idle" /\ host.op = "init"
      /\ host.onlyonceIn \/ host.fulladdIn
      /\ _scheduler.jobs # {} /\ ~hist.firedSince )
    => ( /\ ~_onlyonce /\ ~_fulladd
         /\ ~store.onlyonce /\ ~store.fulladd )

\* C4 (as claimed): when fulladd was set in the configuration, the first run that
\* executes afterwards, cron-fired or one-shot, retrieves the full period listing.
C4_BackfillOnNextRun ==
    \A s \in Slots : (Started(s) /\ run[s].first /\ run[s].cfgFulladd) => run[s].fulladd

\* C5: the wrapper invokes f at most `tries` times, returns f's value at the first
\* success and stops there, returns `ret` when every one of the `tries` invocations
\* raised ExceptionToCheck, and propagates only an exception outside that class.
C5_RetryContract ==
    LET n == Len(rt.outcomes)
    IN  /\ rt.calls = n /\ n <= rt.tries
        /\ \A i \in 1..n : rt.outcomes[i] = "ok" =>
              (i = n /\ rt.status = "returned" /\ rt.result = RetryValue)
        /\ (n = rt.tries /\ \A i \in 1..n : rt.outcomes[i] = "raise") =>
              (rt.status = "returned" /\ rt.result = rt.ret)
        /\ rt.status = "propagated" => (n >= 1 /\ rt.outcomes[n] = "other")
        /\ rt.status = "running" => (n < rt.tries /\ \A i \in 1..n : rt.outcomes[i] = "raise")

C5_Witness ==
    /\ rt.tries = MaxTries /\ rt.calls = MaxTries
    /\ \A i \in 1..MaxTries : rt.outcomes[i] = "raise"
    /\ rt.status = "returned" /\ rt.result = rt.ret

\* C6: when every attempt of the listing call of a backfill run has failed, the
\* call returns the empty list and the run is over without raising: no entry
\* considered, no file created, no reference file written.
C6_ListingExhausted ==
    \A s \in Slots :
        ( /\ Started(s) /\ run[s].fulladd
          /\ run[s].rt.status # "running"
          /\ AllKinds(s, {"raise", "none"}) )
        => ( /\ run[s].rt.status = "returned" /\ run[s].rt.result = <<>>
             /\ run[s].pc = "done"
             /\ Len(run[s].list) = 0 /\ run[s].cnt = 0 /\ run[s].wrote = {} )

C6_Witness ==
    \E s \in Slots :
        /\ run[s].fulladd /\ run[s].pc = "done"
        /\ Len(run[s].resps) = Tries /\ AllKinds(s, {"raise"})
        /\ run[s].rt.calls = Tries

\* C7 (as claimed): after an attempt of either retrieval call got no response, the
\* request is issued again unless that was the last of the 3 attempts.
C7_NoResponseRetried ==
    \A s \in Slots :
        LET k == Len(run[s].resps)
        IN  (Started(s) /\ k >= 1 /\ run[s].resps[k].kind = "none")
            => (run[s].rt.status = "running" \/ run[s].rt.calls = Tries)

\* C8 (as claimed): a listing body that is not the expected structured payload
\* ends the listing call with the empty list after exactly one request.
C8_MalformedListingOnce ==
    \A s \in Slots :
        ( /\ Started(s) /\ run[s].fulladd
          /\ Len(run[s].resps) >= 1
          /\ run[s].resps[1].kind \in {"nonjson", "array"} )
        => ( /\ run[s].rt.status = "returned" /\ run[s].rt.calls = 1
             /\ run[s].rt.result = <<>> )

\* C9 (as claimed): a malformed feed document fails its attempt and the feed
\* is fetched again while attempts remain; a later well-formed document yields
\* its entries; the call returns the empty list only when all 3 attempts have
\* failed.
C9_MalformedFeedRetried ==
    \A s \in Slots :
        LET k == Len(run[s].resps)
            r == run[s].rt
        IN  (Started(s) /\ ~run[s].fulladd) =>
              /\ r.calls = k /\ k <= Tries /\ r.status # "propagated"
              /\ (k >= 1 /\ run[s].resps[k].kind = "malformed") =>
                    IF k < Tries THEN r.status = "running"
                    ELSE r.status = "returned" /\ r.result = <<>> /\ run[s].pc = "done"
              /\ (k >= 1 /\ run[s].resps[k].kind = "xml") =>
                    /\ r.status = "returned"
                    /\ Len(run[s].list) = Len(run[s].resps[k].items)
                    /\ \A i \in 1..Len(run[s].list) :
                          run[s].list[i].title = run[s].resps[k].items[i].title
              /\ (r.status = "returned" /\ run[s].list = <<>>) =>
                    (k = Tries /\ AllKinds(s, {"malformed", "none"}))

\* C9 (amended): a malformed feed document fails its attempt and the feed is
\* fetched again while attempts remain; a later well-formed document yields
\* its entries; the call returns the empty list only when all 3 attempts have
\* failed or when the document that ended it is well-formed and has no
\* <item> element.
C9_EmptyFeedOrExhausted ==
    \A s \in Slots :
        LET k == Len(run[s].resps)
            r == run[s].rt
        IN  (Started(s) /\ ~run[s].fulladd) =>
              /\ r.calls = k /\ k <= Tries /\ r.status # "propagated"
              /\ (k >= 1 /\ run[s].resps[k].kind = "malformed") =>
                    IF k < Tries THEN r.status = "running"
                    ELSE r.status = "returned" /\ r.result = <<>> /\ run[s].pc = "done"
              /\ (k >= 1 /\ run[s].resps[k].kind = "xml") =>
                    /\ r.status = "returned"
                    /\ Len(run[s].list) = Len(run[s].resps[k].items)
                    /\ \A i \in 1..Len(run[s].list) :
                          run[s].list[i].title = run[s].resps[k].items[i].title
              /\ (r.status = "returned" /\ run[s].list = <<>>) =>
                    \/ k = Tries /\ AllKinds(s, {"malformed", "none"})
                    \/ run[s].resps[k] = [kind |-> "xml", items |-> <<>>]

\* C9 witness: two malformed documents, then a well-formed one with two entries
C9_Witness ==
    \E s \in Slots :
        /\ ~run[s].fulladd /\ Len(run[s].resps) = Tries
        /\ run[s].resps[1].kind = "malformed" /\ run[s].resps[2].kind = "malformed"
        /\ run[s].resps[Tries].kind = "xml"
        /\ Len(run[s].list) = 2

\* C10 (as claimed): within one retrieval call every delay slept is strictly
\* greater than the one slept before it.
C10_DelayIncreasing ==
    \A s \in Slots : \A i \in 2..Len(run[s].rt.slept) :
        run[s].rt.slept[i] > run[s].rt.slept[i - 1]

\* C10 (amended): within one retrieval call every delay slept equals the one slept
\* before it: 3 seconds each time, the multiplier being 1.
C10_DelayConstant ==
    \A s \in Slots : \A i \in 1..Len(run[s].rt.slept) :
        /\ run[s].rt.slept[i] = Delay
        /\ i >= 2 => run[s].rt.slept[i] = run[s].rt.slept[i - 1]

C10_Witness ==
    \E s \in Slots : Len(run[s].rt.slept) = Tries /\ run[s].rt.status = "returned"

\* C11 (as claimed): once makedirs has failed in a run, the run is over: it
\* attempts no further entry and has written no reference file.
C11_RootFatal ==
    \A s \in Slots :
        run[s].rootFailed => (run[s].pc = "done" /\ run[s].wrote = {})

\* C12 (as claimed): normalize(normalize(x)) = normalize(x) for every URL x.
C12_NormalizeIdempotent ==
    fn.stage = 2 => fn.z = fn.y

\* C13 (as claimed): the empty URL normalizes to the empty URL, every other URL
\* to one that ends with .mp4?d=true.
C13_NormalizeCanonical ==
    fn.stage >= 1 =>
        IF fn.x = <<>> THEN fn.y = <<>>
        ELSE EndsWith(fn.y, <<".mp4", "?d=true">>)

\* C14: the period of a date is its year paired with the first month of the
\* quarter that contains its month (or the idx_month given instead), so the
\* bucket is one of 1, 4, 7, 10, and it is what the call leaves in self._date.
C14_PeriodBuckets ==
    fn.stage = 1 =>
        LET m == IF fn.idx_month # 0 THEN fn.idx_month ELSE fn.month
            bucket == 3 * ((m - 1) \div 3) + 1
        IN  /\ bucket \in {1, 4, 7, 10}
            /\ m \in bucket .. bucket + 2
            /\ fn.result = ToString(fn.year) \o "-" \o ToString(bucket)
            /\ _date = fn.result

\* C14 witness: December 2026, no idx_month, gives 2026-10
C14_Witness ==
    /\ fn.stage = 1 /\ fn.year = 2026 /\ fn.month = 12 /\ fn.idx_month = 0
    /\ fn.result = "2026-10"

\* C15 (as claimed): when a run ends without a failed write, its count is the
\* number of reference files that exist now and did not exist when it started,
\* the count is at most the number of entries it considered, and no step taken
\* while it runs changes a file that existed when it started.
C15_FilesCreated ==
    [][\A s \in Slots :
          /\ (run[s].pc # "done" /\ run'[s].pc = "done" /\ ~run'[s].wfail) =>
                /\ run'[s].cnt =
                     Cardinality({n \in Names : files'[n].exists /\ n \notin run'[s].had})
                /\ run'[s].cnt <= Len(run'[s].list)
          /\ Active(s) => \A n \in run[s].had : files'[n] = files[n]]_vars

\* C16: every file a full-backfill run creates holds
\* https://openani.an-i.workers.dev/{period}/{quoted name}.mp4?d=true, where
\* period is the one the run computed for its own listing request.
C16_BackfillContent ==
    [][\A s \in Slots :
          (run[s].pc = "write" /\ run[s].fulladd /\ run'[s].cnt = run[s].cnt + 1) =>
              LET name == run[s].list[run[s].idx].title
              IN  /\ run[s].period # "None"
                  /\ files'[name].exists
                  /\ files'[name].content =
                       <<"https://", OpenaniHost, "/", run[s].period, "/">>
                          \o quote(name) \o <<".mp4", "?d=true">>]_vars

\* C16 witness: a full-backfill run that listed the season after the quarter
\* had changed has created the file of 'b c'
C16_Witness ==
    /\ run["date"].fulladd /\ run["date"].cnt >= 1
    /\ run["date"].period = "2025-4"
    /\ files[NameB].exists
    /\ files[NameB].content =
         <<"https://", OpenaniHost, "/", "2025-4", "/", "b", "%20", "c", ".mp4", "?d=true">>

\* C17: from the moment stop_service has removed the jobs (on its own or inside
\* init_plugin) until the next configuration, no run starts; a run in flight
\* at that moment is never dropped: its next state is a run state or done, and
\* shutdown() returns only when every in-flight run is done.
C17_StopLetsRunsFinish ==
    [][\A s \in Slots :
          /\ (~Active(s) /\ run'[s].pc = "fetch") =>
                (host.op # "stop" /\ host.pc # "shutdown")
          /\ Active(s) => run'[s].pc \in {"fetch", "touch", "open", "write", "done"}
          /\ (host.pc = "shutdown" /\ host'.pc = "idle" /\ s \in host.inflight) =>
                run[s].pc = "done"]_vars

\* C17 witness: stop_service arrived while a run was in flight, is still inside
\* shutdown(), and that run has finished after creating a file
C17_Witness ==
    /\ host.op = "stop" /\ host.pc = "shutdown"
    /\ \E s \in host.inflight : run[s].pc = "done" /\ run[s].cnt >= 1

\* init_plugin has just returned with a malformed crontab string in self._cron
JustInitBadCron ==
    /\ host.op = "init" /\ host.pc = "idle" /\ ~hist.firedSince
    /\ _cron = CronBad

\* C18 (as claimed): after an init_plugin with a malformed cron expression the
\* error has been reported and no job at all is scheduled.
C18_BadCronNothingScheduled ==
    JustInitBadCron => (host.cronError /\ _scheduler.jobs = {})

\* C18 (amended): init_plugin returns normally; the malformed expression is
\* parsed, and the error reported, exactly when enabled is set; the recurring
\* job is never registered; the one-shot job is registered, and the scheduler
\* started, exactly when onlyonce was set.
C18_BadCronNoRecurringJob ==
    JustInitBadCron =>
        /\ host.cronError <=> _enabled
        /\ "cron" \notin _scheduler.jobs
        /\ "date" \in _scheduler.jobs <=> host.onlyonceIn
        /\ _scheduler.running <=> host.onlyonceIn

\* C18 witness: enabled and onlyonce with a malformed cron: the error is
\* reported and the one-shot job is scheduled all the same
C18_Witness ==
    /\ JustInitBadCron /\ _enabled /\ host.onlyonceIn
    /\ host.cronError /\ _scheduler.jobs = {"date"} /\ _scheduler.running

\* C19: the saved configuration changes only in a step of init_plugin, never in
\* a step of a run or of stop_service; when init_plugin returns it has called
\* __update_config exactly if it registered the one-shot job, and then the
\* saved configuration holds the enabled, cron and storageplace it has read
\* into its attributes, with onlyonce and fulladd cleared; otherwise the saved
\* configuration is what the host handed over or what it was.
C19_WriteBackOnlyClearsFlags ==
    [][/\ store' # store => (host' # host /\ host'.op = "init")
       /\ (host' # host /\ host'.op = "init" /\ host'.pc = "idle") =>
             /\ host'.updated <=> "date" \in _scheduler'.jobs
             /\ host'.updated =>
                   /\ store'.enabled = _enabled' /\ store'.cron = _cron'
                   /\ store'.storageplace = _storageplace'
                   /\ ~store'.onlyonce /\ ~store'.fulladd
                   /\ ~_onlyonce' /\ ~_fulladd'
                   /\ host.pc = "shutdown" /\ host.given =>
                         /\ store'.enabled = host.config.enabled
                         /\ store'.cron = host.config.cron
                         /\ store'.storageplace = host.config.storageplace
             /\ ~host'.updated =>
                   (store' = store \/ (host'.given /\ host.pc = "idle"))]_vars

\* C19 witness: an init_plugin with enabled, onlyonce and fulladd set has
\* written the configuration back: the flags are cleared, the rest is kept
C19_Witness ==
    /\ host.op = "init" /\ host.pc = "idle" /\ host.updated /\ host.fulladdIn
    /\ _enabled /\ _cron = CronOk
    /\ store = [onlyonce |-> FALSE, cron |-> CronOk, enabled |-> TRUE,
                fulladd |-> FALSE, storageplace |-> _storageplace]

\* C20: a run that has been triggered reaches done, whatever the retrieval
\* calls answer and whichever entries fail; it goes from fetching to the
\* entries and from the entries to done (from fetching to done when there is
\* nothing to create), no exception leaves __task, and a run that is done
\* changes only by being triggered again.
C20_RunsReachDone ==
    /\ \A s \in Slots : (run[s].pc = "fetch") ~> (run[s].pc = "done")
    /\ [](\A s \in Slots : run[s].pc # "raised")
    /\ [][\A s \in Slots :
             /\ run[s].pc = "fetch" => run'[s].pc \in {"fetch", "touch", "done"}
             /\ run[s].pc \in {"touch", "open", "write"} =>
                   run'[s].pc \in {"touch", "open", "write", "done"}
             /\ (run[s].pc = "done" /\ run'[s] # run[s]) =>
                   (run'[s].pc = "fetch" /\ run'[s].cnt = 0)]_vars

\* C20 witness: a run is done after two failed retrieval attempts and a failed
\* write, having created one file
C20_Witness ==
    \E s \in Slots :
        /\ run[s].pc = "done" /\ run[s].rt.calls = Tries
        /\ run[s].wfail /\ run[s].cnt = 1

\* an answer of the season listing endpoint / of the feed endpoint
IsListing(rep) == "files" \in DOMAIN rep
IsFeed(rep) == "items" \in DOMAIN rep

\* C21: every request of a run goes to one endpoint; a one-shot run scheduled
\* while fulladd was set requests the season listing only, although the flag
\* is cleared before it executes, and a run scheduled while fulladd was not set
\* requests the feed only; a run that is past retrieval has made a request.
C21_OneModePerRun ==
    \A s \in Slots :
        Started(s) =>
            LET n == Len(run[s].resps)
                listing == \A i \in 1..n : IsListing(run[s].resps[i])
                feed == \A i \in 1..n : IsFeed(run[s].resps[i])
            IN  /\ listing \/ feed
                /\ run[s].pc # "fetch" => n >= 1
                /\ (s = "date" /\ run[s].cfgFulladd) => listing
                /\ ~run[s].cfgFulladd => feed

\* C21 witness: the one-shot run scheduled with fulladd set has finished on
\* the season listing, with the flag cleared in the plugin and in the store
C21_Witness ==
    /\ run["date"].pc = "done" /\ run["date"].cfgFulladd
    /\ ~_fulladd /\ ~store.fulladd
    /\ Len(run["date"].resps) >= 1 /\ IsListing(run["date"].resps[1])
    /\ run["date"].cnt = 1

\* the file of `name` is what a failed write leaves behind: it exists, it
\* holds no URL ending in .mp4?d=true, and no run holds it open
Partial(name) ==
    /\ files[name].exists /\ ~EndsWith(files[name].content, <<".mp4", "?d=true">>)
    /\ \A s \in Slots : ~(run[s].pc = "write" /\ run[s].list[run[s].idx].title = name)

\* C22 (as claimed): a write step of a run that does not leave the URL in the file
\* counts nothing and moves on to the next entry (or ends the run); a partial
\* file is never changed by any step; and a run that comes to an entry whose
\* file is partial counts nothing and does not open it.
C22_PartialFileKept ==
    [][/\ \A s \in Slots :
             LET r == run[s]
                 name == r.list[r.idx].title
             IN  /\ (r.pc = "write" /\ run'[s] # r /\
                     files'[name] # [exists |-> TRUE, content |-> r.src_url]) =>
                        /\ run'[s].cnt = r.cnt
                        /\ run'[s].pc = IF r.idx < Len(r.list) THEN "touch" ELSE "done"
                        /\ r.idx < Len(r.list) => run'[s].idx = r.idx + 1
                 /\ (r.pc \in {"touch", "open"} /\ run'[s] # r /\ Partial(name)) =>
                        (run'[s].cnt = r.cnt /\ run'[s].pc \notin {"open", "write"})
       /\ \A n \in Names : Partial(n) => files'[n] = files[n]]_vars

\* C23 (as claimed): every file an incremental run creates holds the link of
\* its feed entry with the host rewritten and the suffix made canonical: it
\* names the streaming host and ends with .mp4?d=true, and the entry has a
\* link, so that the URL is never built from the file name and self._date.
C23_IncrementalContent ==
    [][\A s \in Slots :
          LET r == run[s]
              name == r.list[r.idx].title
              item == r.resps[Len(r.resps)].items[r.idx]
              fixed == ReplaceAll(item.link, ResourcesHost, <<OpenaniHost>>)
          IN  (r.pc = "write" /\ ~r.fulladd /\ run'[s].cnt = r.cnt + 1) =>
                  /\ item.link # <<>>
                  /\ files'[name].content = _normalize_openani_url(fixed)
                  /\ EndsWith(files'[name].content, <<".mp4", "?d=true">>)
                  /\ Contains(files'[name].content, OpenaniHost)]_vars

\* C24 (as claimed): with only_once_until_recover set, no path has had more
\* than one low-space alert since a check last saw it at or above the threshold.
C24_OncePerEpisode ==
    dm._only_once_until_recover => \A p \in Paths : dm.at[p].since <= 1

\* C25 (as claimed): a low-space alert for a path that has an alert on record
\* is posted only when the check found the path out of its cooldown, that is
\* at least cooldown_minutes after the alert on record.
C25_Cooldown ==
    [][\A c \in Callers :
          LET k == dm.call[c]
              path == k.paths[k.i]
          IN  (k.pc = "alert" /\ dm'.at[path].since > dm.at[path].since) =>
                  ~k.in_cooldown]_vars

\* init_plugin has just returned and no job has fired since
JustInit == host.op = "init" /\ host.pc = "idle" /\ ~hist.firedSince

\* C26: the plugin holds at most one scheduler, and a scheduler that is not
\* live holds no job and is not running; only a running scheduler is live;
\* while the previous scheduler is being shut down it holds no job; when
\* init_plugin returns, no execution of the previous scheduler is in flight,
\* the scheduler is running exactly if it holds a job, the cron job is there
\* only with enabled and a cron expression, and the date job is there exactly
\* when onlyonce was set, enabled or not; after stop_service there is no
\* scheduler; and a run starts only from a job of the running scheduler,
\* outside every stop.
C26_SchedulerLifecycle ==
    /\ [](/\ _scheduler.running => _scheduler.live
          /\ ~_scheduler.live => _scheduler = NoScheduler
          /\ "cron" \in _scheduler.jobs => (_enabled /\ _cron # "")
          /\ host.pc = "shutdown" => _scheduler.jobs = {}
          /\ (host.op = "stop" /\ host.pc = "idle") => _scheduler = NoScheduler
          /\ JustInit =>
                /\ \A s \in Slots : ~Active(s)
                /\ _scheduler.live <=> (_enabled \/ host.onlyonceIn)
                /\ _scheduler.running <=> _scheduler.jobs # {}
                /\ "date" \in _scheduler.jobs <=> host.onlyonceIn)
    /\ [][\A s \in Slots :
             (~Active(s) /\ run'[s].pc = "fetch") =>
                 /\ s \in _scheduler.jobs /\ _scheduler.running
                 /\ host.op = "init" /\ host.pc = "idle"]_vars

\* C26 witness: onlyonce without enabled, and a cron expression saved: the
\* scheduler runs with the one-shot job alone
C26_Witness ==
    /\ JustInit /\ ~_enabled /\ host.onlyonceIn /\ _cron = CronOk
    /\ _scheduler.live /\ _scheduler.running /\ _scheduler.jobs = {"date"}

=============================================================================
